---- MODULE Spec2Model ----
(***************************************************************************)
(* Model of the csp_nif crate (src/native/csp_nif/src): the Csp struct,    *)
(* its construction, and backtrack(csp) -- specification Spec -- and of    *)
(* the Propagator of the design (spec section 4.3), which the crate only   *)
(* declares (trait Constraint, "TODO: implement") -- specification         *)
(* SpecProp.                                                               *)
(***************************************************************************)
EXTENDS Integers, Sequences, FiniteSets

VARIABLES pc, csp, result, doms, worklist, pstate, run, first

vars == <<pc, csp, result, doms, worklist, pstate, run, first>>

(* ------------------------------ bounds --------------------------------- *)

\* Range<i32> bounds of the enumerated Problems lie in 0..MaxVal.
MaxVal == 2

\* Longest constraint list of the enumerated Problems.
MaxCons == 2

\* bin.rs:16-17: the demonstration domains are 0..10.
MainEnd == 10

(* ------------------------------ data ----------------------------------- *)

\* type Variable = String; the identifiers the enumerated Problems use.
Variable == {"x", "y", "z"}

\* std::ops::Range<i32>, the i32 Domain: start inclusive, end exclusive.
Range(lo, hi) == [start |-> lo, end |-> hi]

\* The candidates of a Range<i32>: start <= v < end (empty when start >= end).
Values(r) == {v \in r.start .. (r.end - 1) : TRUE}

\* The four constraint structs; each holds a Vec<Variable> and a closure or
\* a constant.  A closure is one of a few named predicates.
UnaryConstraint(v, p) == [kind |-> "Unary", vars |-> <<v>>, pred |-> p, value |-> 0]
BinaryConstraint(v1, v2, p) == [kind |-> "Binary", vars |-> <<v1, v2>>, pred |-> p, value |-> 0]
EqualityConstraint(v, c) == [kind |-> "Equality", vars |-> <<v>>, pred |-> "none", value |-> c]
InequalityConstraint(v, c) == [kind |-> "Inequality", vars |-> <<v>>, pred |-> "none", value |-> c]

\* Box<dyn Fn(Value) -> bool>
call1(p, a) ==
  CASE p = "even" -> a % 2 = 0
    [] OTHER -> TRUE

\* Box<dyn Fn(Value, Value) -> bool>; "square" is the closure of bin.rs:18,
\* |x, y| y == x * x.
call2(p, a, b) ==
  CASE p = "square" -> b = a * a
    [] p = "lt" -> a < b
    [] p = "neq" -> a # b
    [] OTHER -> TRUE

\* struct Csp { variables, domains, constraints }
Csp(vs, ds, cs) == [variables |-> vs, domains |-> ds, constraints |-> cs]

\* Assignment<D> = HashMap<Variable, Value>, as its set of (key, value) entries.
EmptyAssignment == {}

(* ------------------------- enumerated inputs --------------------------- *)

\* Vec<Variable> values a caller passes as `variables`.
VariableLists == {<<>>, <<"x">>, <<"x", "y">>}

\* Range<i32> values with 0 <= start <= end <= MaxVal.
Ranges == {r \in [start : 0..MaxVal, end : 0..MaxVal] : r.start <= r.end}

\* HashMap<Variable, Range<i32>> values: the key set is any of a few sets.
DomainMaps == UNION {[S -> Ranges] : S \in {{}, {"x"}, {"x", "y"}}}

\* Constraint values a caller passes.
ConstraintCatalogue ==
  {EqualityConstraint("x", v) : v \in 0..(MaxVal - 1)}
    \cup {InequalityConstraint("x", v) : v \in 0..(MaxVal - 1)}
    \cup {BinaryConstraint("x", "y", "square"), UnaryConstraint("y", "even")}

\* Vec<C> values of at most MaxCons constraints.
ConstraintLists == UNION {[1..n -> ConstraintCatalogue] : n \in 0..MaxCons}

\* bin.rs:14-24: the Csp that main builds.
MainCsp ==
  Csp(<<"x", "y">>,
      [v \in {"x", "y"} |-> Range(0, MainEnd)],
      <<BinaryConstraint("x", "y", "square")>>)

\* The value of `csp` before anything is constructed.
NoCsp == Csp(<<>>, [v \in {} |-> Range(0, 0)], <<>>)

\* The value of `result` before backtrack returns.
NoResult == [type |-> "None", assignment |-> EmptyAssignment]

(* ----------------------------- backtrack ------------------------------- *)

\* A first-fit search that binds every declared variable with a domain entry
\* to the start of its range.
backtrack_first_values(c) ==
  [ret |-> {<<c.variables[i], c.domains[c.variables[i]].start>> :
              i \in {j \in 1..Len(c.variables) : c.variables[j] \in DOMAIN c.domains}},
   csp |-> c]

\* A search that narrows the domains of the Csp it was handed in place.
backtrack_narrowing(c) ==
  [ret |-> EmptyAssignment,
   csp |-> [c EXCEPT !.domains =
              [v \in DOMAIN c.domains |-> Range(c.domains[v].start, c.domains[v].start)]]]

\* csp.rs:72-78  pub fn backtrack<D, C>(csp: Csp<D, C>) -> Assignment<D>
\* (lib.rs:82-88 holds the same function, word for word.)
\* The body is HashMap::new(): `ret` is the value returned, `csp` the value of
\* the argument when the body ends (the body never writes to it).
backtrack(c) == [ret |-> EmptyAssignment, csp |-> c]

(* ------------------------------ actions -------------------------------- *)

PropIdle ==
  /\ doms = [v \in {} |-> {}]
  /\ worklist = {}
  /\ pstate = "idle"
  /\ run = 0
  /\ first = [v \in {} |-> {}]

Init ==
  /\ pc = "start"
  /\ csp = NoCsp
  /\ result = NoResult
  /\ PropIdle

\* bin.rs:14-24: main builds the demonstration Csp.
Main ==
  /\ pc = "start"
  /\ csp' = MainCsp
  /\ pc' = "built"
  /\ UNCHANGED <<result, doms, worklist, pstate, run, first>>

\* csp.rs:23-31: every field of Csp is pub, so a Csp is built by a struct
\* literal from any three field values; no code runs at construction.
Construct ==
  /\ pc = "start"
  /\ \E vs \in VariableLists, ds \in DomainMaps, cs \in ConstraintLists :
       csp' = Csp(vs, ds, cs)
  /\ pc' = "built"
  /\ UNCHANGED <<result, doms, worklist, pstate, run, first>>

\* A caller hands its Csp to backtrack and receives the Assignment.
Backtrack ==
  /\ pc = "built"
  /\ result' = [type |-> "Assignment", assignment |-> backtrack(csp).ret]
  /\ csp' = backtrack(csp).csp
  /\ pc' = "returned"
  /\ UNCHANGED <<doms, worklist, pstate, run, first>>

Next == Main \/ Construct \/ Backtrack

Spec == Init /\ [][Next]_vars

(* ------------------- vocabulary of the properties ---------------------- *)

\* The variables a Problem declares.
Declared(c) == {c.variables[i] : i \in 1..Len(c.variables)}

\* The variables a constraint references.
Scope(con) == {con.vars[i] : i \in 1..Len(con.vars)}

\* The Problem invariant: every declared variable has a domain entry and every
\* constraint references declared variables only.
ValidProblem(c) ==
  /\ Declared(c) \subseteq DOMAIN c.domains
  /\ \A i \in 1..Len(c.constraints) : Scope(c.constraints[i]) \subseteq Declared(c)

\* The variables an Assignment binds, and the value it gives one of them.
Bound(a) == {e[1] : e \in a}
ValueOf(a, v) == (CHOOSE e \in a : e[1] = v)[2]

\* A constraint evaluated on an Assignment that covers its scope.
is_satisfied(con, a) ==
  CASE con.kind = "Unary" -> call1(con.pred, ValueOf(a, con.vars[1]))
    [] con.kind = "Binary" -> call2(con.pred, ValueOf(a, con.vars[1]), ValueOf(a, con.vars[2]))
    [] con.kind = "Equality" -> ValueOf(a, con.vars[1]) = con.value
    [] con.kind = "Inequality" -> ValueOf(a, con.vars[1]) # con.value
    [] OTHER -> FALSE

\* A full Assignment of a Problem: every declared variable, one value each,
\* taken from the variable's domain.
Full(a, c) ==
  /\ Bound(a) = Declared(c)
  /\ \A e1 \in a, e2 \in a : e1[1] = e2[1] => e1 = e2
  /\ \A e \in a : e[1] \in DOMAIN c.domains /\ e[2] \in Values(c.domains[e[1]])

Satisfying(a, c) ==
  \A i \in 1..Len(c.constraints) :
    Scope(c.constraints[i]) \subseteq Bound(a) /\ is_satisfied(c.constraints[i], a)

\* The SolverResult variant a returned value is: an Assignment is what Solved
\* carries, a Problem what Reduced carries, NoSolution carries nothing.
IsSolved(r) == r.type = "Assignment"
IsReduced(r) == r.type = "Problem"
IsNoSolution(r) == r.type = "NoSolution"

\* Solving has returned to the caller.
Returned == pc = "returned"

(* ------------------------------ claims --------------------------------- *)

\* C1: solving the Problem of bin.rs (x, y in 0..10, y == x * x) returns
\* Solved with an Assignment that binds x and y with y = x * x.
C1_MainSolved ==
  (Returned /\ csp = MainCsp) =>
    /\ IsSolved(result)
    /\ {"x", "y"} \subseteq Bound(result.assignment)
    /\ ValueOf(result.assignment, "y")
         = ValueOf(result.assignment, "x") * ValueOf(result.assignment, "x")

\* C2: whenever solving a valid Problem reports Solved, the Assignment is
\* full (every declared variable, one value from its domain) and satisfies
\* every constraint.
C2_SolvedIsFullAndSatisfying ==
  (Returned /\ ValidProblem(csp) /\ IsSolved(result)) =>
    Full(result.assignment, csp) /\ Satisfying(result.assignment, csp)

\* C3: a Problem without constraints yields Reduced when some domain has more
\* than one candidate, and Solved (with the induced Assignment) when every
\* domain is a singleton.
C3_NoConstraints ==
  (Returned /\ ValidProblem(csp) /\ csp.constraints = <<>>) =>
    /\ (\E v \in Declared(csp) : Cardinality(Values(csp.domains[v])) > 1)
         => IsReduced(result)
    /\ (\A v \in Declared(csp) : Cardinality(Values(csp.domains[v])) = 1)
         => IsSolved(result) /\ Full(result.assignment, csp)

\* C4: a Problem with an empty declared domain yields NoSolution.
C4_EmptyDomainNoSolution ==
  (Returned /\ ValidProblem(csp)
     /\ \E v \in Declared(csp) : Values(csp.domains[v]) = {}) =>
    IsNoSolution(result)

\* C5: construction rejects a Problem whose constraints reference undeclared
\* variables or whose variables lack a domain entry, so every Problem that is
\* constructed, and every Problem that reaches solving, is valid.
C5_ConstructedIsValid ==
  pc \in {"built", "returned"} => ValidProblem(csp)

\* C6: solving never changes the Problem the caller passed in.
C6_InputNotMutated ==
  [][(pc = "built" /\ pc' = "returned") => csp' = csp]_vars

\* C6 witness: solving returned on a valid Problem with a constraint and a
\* domain of several candidates, where there was something to narrow.
C6_Witness ==
  /\ Returned
  /\ ValidProblem(csp)
  /\ csp.constraints # <<>>
  /\ \E v \in Declared(csp) : Cardinality(Values(csp.domains[v])) > 1
  /\ csp # MainCsp

\* C9: a variable with the singleton domain {v1}, an Equality constraint to
\* v1 and an Inequality constraint to v1 yields NoSolution.
C9_Contradiction ==
  (Returned /\ ValidProblem(csp)
     /\ \E v \in Declared(csp), i, j \in 1..Len(csp.constraints) :
          /\ Cardinality(Values(csp.domains[v])) = 1
          /\ csp.constraints[i] = EqualityConstraint(v, csp.domains[v].start)
          /\ csp.constraints[j] = InequalityConstraint(v, csp.domains[v].start)) =>
    IsNoSolution(result)

\* C10: backtrack returns the empty Assignment, binding no variable, for
\* every Csp.
C10_AlwaysEmpty ==
  Returned => result.assignment = EmptyAssignment /\ Bound(result.assignment) = {}

\* C10 witness: backtrack returned on the Problem of bin.rs, which has the
\* satisfying assignments (0,0), (1,1), (2,4), (3,9).
C10_Witness ==
  /\ Returned
  /\ csp = MainCsp
  /\ \E a \in Values(csp.domains["x"]), b \in Values(csp.domains["y"]) :
       call2("square", a, b)
  /\ Bound(result.assignment) = {}

(* ------------------- the Propagator (spec section 4.3) ----------------- *)

\* The Problems the Propagator is run on: x, y, z with every Range below.
PropVariables == <<"x", "y", "z">>

PropRanges == {r \in Ranges : r.start < r.end} \cup {Range(0, 0)}

PropCatalogue ==
  <<BinaryConstraint("x", "y", "lt"),
    BinaryConstraint("y", "z", "lt"),
    BinaryConstraint("x", "y", "square"),
    BinaryConstraint("z", "y", "neq"),
    UnaryConstraint("z", "even"),
    EqualityConstraint("x", 0),
    InequalityConstraint("x", 0),
    EqualityConstraint("y", 1)>>

\* The catalogue entries at the indices S, in catalogue order.
Pick(S) ==
  [i \in 1..Cardinality(S) |->
     PropCatalogue[CHOOSE k \in S : Cardinality({j \in S : j < k}) = i - 1]]

PropConstraintLists ==
  {Pick(S) : S \in {T \in SUBSET (1..Len(PropCatalogue)) : Cardinality(T) <= MaxCons}}

\* An arc is (constraint, variable): the index of a constraint and a variable
\* of its scope, the variable the arc governs.  A Binary constraint relates
\* two distinct variables, so it has two arcs.
AllArcs(c) ==
  {<<i, v>> : i \in 1..Len(c.constraints), v \in Variable} \cap
  {a \in (1..Len(c.constraints)) \X Variable : a[2] \in Scope(c.constraints[a[1]])}

\* The paired variable of a binary constraint's arc.
Paired(con, v) == IF con.vars[1] = v THEN con.vars[2] ELSE con.vars[1]

\* supports(var, value, other_var, other_value) of a Binary constraint: the
\* predicate on the two values, each in the position of its variable.
supports(con, var, value, other_value) ==
  IF con.vars[1] = var
    THEN call2(con.pred, value, other_value)
    ELSE call2(con.pred, other_value, value)

\* A Revise that prunes only the first variable of a Binary constraint and
\* keeps every candidate of the second.
Revise_first_only(con, v, d) ==
  CASE con.kind = "Unary" -> {a \in d[v] : call1(con.pred, a)}
    [] con.kind = "Equality" -> {a \in d[v] : a = con.value}
    [] con.kind = "Inequality" -> {a \in d[v] : a # con.value}
    [] con.kind = "Binary" /\ con.vars[1] = v ->
         {a \in d[v] : \E b \in d[con.vars[2]] : call2(con.pred, a, b)}
    [] OTHER -> d[v]

\* The candidates of the governed variable that an arc keeps.
Revise(con, v, d) ==
  CASE con.kind = "Unary" -> {a \in d[v] : call1(con.pred, a)}
    [] con.kind = "Equality" -> {a \in d[v] : a = con.value}
    [] con.kind = "Inequality" -> {a \in d[v] : a # con.value}
    [] con.kind = "Binary" ->
         {a \in d[v] : \E b \in d[Paired(con, v)] : supports(con, v, a, b)}
    [] OTHER -> d[v]

\* A Propagator that re-enqueues nothing when a domain shrinks.
Requeue_none(c, arc) == {}

\* The arcs re-enqueued when the domain of arc's variable shrinks: all arcs
\* incident to that variable, except the one just processed.
Requeue(c, arc) ==
  {a \in AllArcs(c) : arc[2] \in Scope(c.constraints[a[1]])} \ {arc}

\* "Terminates when the worklist is empty (fixpoint) or a domain empties":
\* the test the Propagator makes before it pops an arc.
Exhausted(d) == \E v \in DOMAIN d : d[v] = {}

\* Output classification.
classify(d) ==
  IF Exhausted(d) THEN "exhausted"
  ELSE IF \A v \in DOMAIN d : Cardinality(d[v]) = 1 THEN "solved"
  ELSE "reduced"

InitProp ==
  /\ pc = "built"
  /\ \E ds \in [Declared(Csp(PropVariables, <<>>, <<>>)) -> PropRanges],
        cs \in PropConstraintLists :
       csp = Csp(PropVariables, ds, cs)
  /\ result = NoResult
  /\ doms = [v \in Declared(csp) |-> Values(csp.domains[v])]
  /\ worklist = AllArcs(csp)
  /\ pstate = "running"
  /\ run = 1
  /\ first = [v \in {} |-> {}]

\* Pop an arc and revise the domain of its variable.
Pop ==
  /\ pstate = "running"
  /\ ~Exhausted(doms)
  /\ \E arc \in worklist :
       LET kept == Revise(csp.constraints[arc[1]], arc[2], doms) IN
         /\ doms' = [doms EXCEPT ![arc[2]] = kept]
         /\ worklist' = IF kept # doms[arc[2]]
                          THEN (worklist \ {arc}) \cup Requeue(csp, arc)
                          ELSE worklist \ {arc}
  /\ UNCHANGED <<pc, csp, result, pstate, run, first>>

\* The worklist is empty, or a domain is: propagation ends and classifies.
Finish ==
  /\ pstate = "running"
  /\ worklist = {} \/ Exhausted(doms)
  /\ pstate' = classify(doms)
  /\ UNCHANGED <<pc, csp, result, doms, worklist, run, first>>

\* The Propagator is run again on its own output.
Rerun ==
  /\ pstate \in {"solved", "reduced", "exhausted"}
  /\ run = 1
  /\ run' = 2
  /\ first' = doms
  /\ worklist' = AllArcs(csp)
  /\ pstate' = "running"
  /\ UNCHANGED <<pc, csp, result, doms>>

NextProp == Pop \/ Finish \/ Rerun

SpecProp == InitProp /\ [][NextProp]_vars

\* C7: when the Propagator finishes without emptying a domain, every value
\* left in the domain of either variable of a binary constraint has a
\* supporting value left in the domain of the other.
C7_ArcConsistent ==
  pstate \in {"solved", "reduced"} =>
    \A i \in 1..Len(csp.constraints) :
      LET con == csp.constraints[i] IN
        con.kind = "Binary" =>
          /\ \A a \in doms[con.vars[1]] :
               \E b \in doms[con.vars[2]] : call2(con.pred, a, b)
          /\ \A b \in doms[con.vars[2]] :
               \E a \in doms[con.vars[1]] : call2(con.pred, a, b)

\* C7 witness: the Propagator finished, no domain is empty, and it removed a
\* value on a Problem with two binary constraints.
C7_Witness ==
  /\ pstate \in {"solved", "reduced"}
  /\ run = 1
  /\ Len(csp.constraints) >= 2
  /\ \A i \in 1..Len(csp.constraints) : csp.constraints[i].kind = "Binary"
  /\ \E v \in Declared(csp) : doms[v] # Values(csp.domains[v])

====
